---- MODULE Spec2Model ----
(***************************************************************************)
(* Download sessions of the Eliot Downloader backend (main.py) and of its  *)
(* Streamlit front end (streamlit_app.py): the registry of progress        *)
(* records, the worker download_job, the yt-dlp progress hook and the      *)
(* polling loop that reads the records from another thread.                *)
(*                                                                         *)
(* Python strings are sequences of one-character strings, so that          *)
(* lower(), the "in" substring test, replace(), basename() and             *)
(* concatenation are computed as Python computes them.  An optional value  *)
(* is a sequence of length at most one: <<>> is None, <<v>> is v.          *)
(***************************************************************************)
EXTENDS Integers, Sequences, FiniteSets, TLC

(***************************************************************************)
(* Bounds of the model.                                                    *)
(***************************************************************************)
\* progress-hook events the library emits during one extract_info call
MaxEvents ==
    2

\* iterations of the polling loop before max_wait_time is exceeded
MaxPolls ==
    2

\* the session ids uuid4 returns, in the order it returns them
IdSeq ==
    <<"s1", "s2">>

SessionIds ==
    {IdSeq[i] : i \in 1..Len(IdSeq)}

(***************************************************************************)
(* Optional values.                                                        *)
(***************************************************************************)
None ==
    <<>>

Some(v) ==
    <<v>>

\* the element of a set of one element: TheOne({f(x) : x \in {e}}) is f(e)
\* with e computed once
TheOne(S) ==
    CHOOSE v \in S : TRUE

(***************************************************************************)
(* String functions of Python used by the code.                            *)
(***************************************************************************)
UpperCase ==
    <<"A","B","C","D","E","F","G","H","I","J","K","L","M",
      "N","O","P","Q","R","S","T","U","V","W","X","Y","Z">>

LowerCase ==
    <<"a","b","c","d","e","f","g","h","i","j","k","l","m",
      "n","o","p","q","r","s","t","u","v","w","x","y","z">>

LowerChar(c) ==
    IF \E i \in 1..26 : UpperCase[i] = c
    THEN LowerCase[CHOOSE i \in 1..26 : UpperCase[i] = c]
    ELSE c

\* str.lower()
Lower(s) ==
    [i \in 1..Len(s) |-> LowerChar(s[i])]

\* sub in s (t is the value of s, computed once)
Contains(sub, s) ==
    \E t \in {s} :
        \E i \in 0..(Len(t) - Len(sub)) : SubSeq(t, i + 1, i + Len(sub)) = sub

RECURSIVE Replace(_, _, _)
\* s.replace(old, new), old non-empty: every occurrence, left to right
\* (rest is the value of the remaining text, computed once per step)
Replace(s, old, new) ==
    IF Len(s) < Len(old) THEN s
    ELSE IF SubSeq(s, 1, Len(old)) = old
         THEN new \o TheOne({Replace(rest, old, new) :
                                 rest \in {SubSeq(s, Len(old) + 1, Len(s))}})
         ELSE <<s[1]>> \o TheOne({Replace(rest, old, new) :
                                     rest \in {SubSeq(s, 2, Len(s))}})

\* the positions of "/" in p
Slashes(p) ==
    {i \in 1..Len(p) : p[i] = "/"}

\* os.path.basename(p)
Basename(p) ==
    IF Slashes(p) = {} THEN p
    ELSE SubSeq(p, (CHOOSE i \in Slashes(p) : \A j \in Slashes(p) : j <= i) + 1, Len(p))

\* Path(p).parent as a string, "" for a bare name
Dirname(p) ==
    IF Slashes(p) = {} THEN <<>>
    ELSE SubSeq(p, 1, (CHOOSE i \in Slashes(p) : \A j \in Slashes(p) : j <= i) - 1)

(***************************************************************************)
(* String literals of main.py.                                             *)
(***************************************************************************)
KW_AGE ==
    <<"a","g","e","-","r","e","s","t","r","i","c","t","e","d">>

KW_SIGNIN ==
    <<"s","i","g","n"," ","i","n">>

KW_PRIVATE ==
    <<"p","r","i","v","a","t","e">>

KW_UNAVAILABLE ==
    <<"u","n","a","v","a","i","l","a","b","l","e">>

KW_FORMAT ==
    <<"f","o","r","m","a","t">>

MSG_AGE ==
    <<"A","g","e","-","r","e","s","t","r","i","c","t","e","d"," ","c","o","n","t","e","n","t","."," ","C","o","o","k","i","e"," ","f","i","l","e"," ","m","a","y"," ","b","e"," ","r","e","q","u","i","r","e","d",".">>

MSG_PRIVATE ==
    <<"P","r","i","v","a","t","e"," ","c","o","n","t","e","n","t"," ","-"," ","c","h","e","c","k"," ","U","R","L"," ","a","n","d"," ","p","e","r","m","i","s","s","i","o","n","s",".">>

MSG_UNAVAILABLE ==
    <<"C","o","n","t","e","n","t"," ","u","n","a","v","a","i","l","a","b","l","e"," ","o","r"," ","r","e","g","i","o","n","-","b","l","o","c","k","e","d",".">>

MSG_FORMAT ==
    <<"N","o"," ","s","u","i","t","a","b","l","e"," ","f","o","r","m","a","t"," ","f","o","u","n","d","."," ","T","r","y"," ","d","i","f","f","e","r","e","n","t"," ","q","u","a","l","i","t","y"," ","s","e","t","t","i","n","g",".">>

MSG_PREFIX ==
    <<"D","o","w","n","l","o","a","d"," ","f","a","i","l","e","d",":"," ">>

MSG_HOOK ==
    <<"D","o","w","n","l","o","a","d"," ","e","r","r","o","r">>

MSG_NOTFOUND ==
    <<"D","o","w","n","l","o","a","d","e","d"," ","f","i","l","e"," ","n","o","t"," ","f","o","u","n","d">>

EXT_WEBM ==
    <<".","w","e","b","m">>

EXT_MP4 ==
    <<".","m","p","4">>

EXT_MKV ==
    <<".","m","k","v">>

EXT_M4A ==
    <<".","m","4","a">>

EXT_MP3 ==
    <<".","m","p","3">>

(***************************************************************************)
(* The values the environment supplies: the download directory, the files  *)
(* the library can leave in it, what extract_info and prepare_filename     *)
(* report, the texts of the exceptions raised, the hook events.            *)
(***************************************************************************)
(* The literals of the option builder.                                     *)
(***************************************************************************)
\* "agasobanuyefilms.com"
K_AGASOBANUYE ==
    <<"a", "g", "a", "s", "o", "b", "a", "n", "u", "y", "e", "f", "i", "l", "m", "s", ".", "c", "o", "m">>

\* "youtube.com"
K_YOUTUBE ==
    <<"y", "o", "u", "t", "u", "b", "e", ".", "c", "o", "m">>

\* "youtu.be"
K_YOUTU_BE ==
    <<"y", "o", "u", "t", "u", ".", "b", "e">>

\* "vimeo.com"
K_VIMEO ==
    <<"v", "i", "m", "e", "o", ".", "c", "o", "m">>

\* "instagram.com"
K_INSTAGRAM ==
    <<"i", "n", "s", "t", "a", "g", "r", "a", "m", ".", "c", "o", "m">>

\* "pinterest.com"
K_PINTEREST ==
    <<"p", "i", "n", "t", "e", "r", "e", "s", "t", ".", "c", "o", "m">>

\* "Mozilla/5.0"
UA_MOZILLA ==
    <<"M", "o", "z", "i", "l", "l", "a", "/", "5", ".", "0">>

\* "https://agasobanuyefilms.com/"
REFERER_AGASOBANUYE ==
    <<"h", "t", "t", "p", "s", ":", "/", "/", "a", "g", "a", "s", "o", "b", "a", "n", "u", "y", "e", "f", "i", "l", "m", "s", ".", "c", "o", "m", "/">>

\* "www."
WWW ==
    <<"w", "w", "w", ".">>

\* "best"
BEST ==
    <<"b", "e", "s", "t">>

\* "best[height<="
HEIGHT_PRE ==
    <<"b", "e", "s", "t", "[", "h", "e", "i", "g", "h", "t", "<", "=">>

\* "]"
HEIGHT_POST ==
    <<"]">>

\* "bestaudio/best"
BESTAUDIO ==
    <<"b", "e", "s", "t", "a", "u", "d", "i", "o", "/", "b", "e", "s", "t">>

\* "mp3"
MP3 ==
    <<"m", "p", "3">>

\* "192"
Q192 ==
    <<"1", "9", "2">>

\* "mp4"
MP4 ==
    <<"m", "p", "4">>

\* "FFmpegExtractAudio"
FFMPEG_EXTRACT_AUDIO ==
    <<"F", "F", "m", "p", "e", "g", "E", "x", "t", "r", "a", "c", "t", "A", "u", "d", "i", "o">>

\* "/%(title).100s-%(id)s.%(ext)s"
OUTTMPL_NAME ==
    <<"/", "%", "(", "t", "i", "t", "l", "e", ")", ".", "1", "0", "0", "s", "-", "%", "(", "i", "d", ")", "s", ".", "%", "(", "e", "x", "t", ")", "s">>

(***************************************************************************)
DOWNLOAD_DIR ==
    <<"d">>

\* the file at the path prepare_filename reports
F_WEBM ==
    <<"d","/","T","-","x",".","w","e","b","m">>

\* the same with the extension a post-processor writes
F_MP4 ==
    <<"d","/","T","-","x",".","m","p","4">>

\* a file found only by the scan of the directory
F_MKV ==
    <<"d","/","t","-","x",".","m","k","v">>

\* the per-format file a "finished" event names before the merge removes it
F_PART ==
    <<"d","/","T","-","x",".","f","1",".","w","e","b","m">>

Files ==
    {F_WEBM, F_MP4, F_MKV}

\* what one library call can leave on storage
Outputs ==
    {{}, {F_WEBM}, {F_MP4}, {F_MKV}}

\* info dicts (title, id) and the path prepare_filename derives from them
Infos ==
    {[title |-> <<"T">>, id |-> <<"x">>, target |-> F_WEBM]}

TXT_UNAVAIL ==
    <<"V","i","d","e","o"," ","u","n","a","v","a","i","l","a","b","l","e">>

TXT_403 ==
    <<"H","T","T","P"," ","E","r","r","o","r"," ","4","0","3">>

\* str(TypeError) of build_video_format(None)
TXT_TYPE ==
    <<"'","N","o","n","e","T","y","p","e","'"," ","o","b","j","e","c","t"," ","i","s"," ","n","o","t"," ","i","t","e","r","a","b","l","e">>

\* texts of the exceptions extract_info raises
LibErrors ==
    {TXT_UNAVAIL, TXT_403}

\* texts of the exceptions option building raises
BuildErrors ==
    {TXT_TYPE}

\* "https://WWW.YouTube.com/x"
URL_YT_WWW ==
    <<"h", "t", "t", "p", "s", ":", "/", "/", "W", "W", "W", ".", "Y", "o", "u", "T", "u", "b", "e", ".", "c", "o", "m", "/", "x">>

\* "https://youtu.be/x"
URL_YOUTU_BE ==
    <<"h", "t", "t", "p", "s", ":", "/", "/", "y", "o", "u", "t", "u", ".", "b", "e", "/", "x">>

\* "https://agasobanuyefilms.com/m"
URL_AGASOBANUYE ==
    <<"h", "t", "t", "p", "s", ":", "/", "/", "a", "g", "a", "s", "o", "b", "a", "n", "u", "y", "e", "f", "i", "l", "m", "s", ".", "c", "o", "m", "/", "m">>

\* "https://example.org/v"
URL_OTHER ==
    <<"h", "t", "t", "p", "s", ":", "/", "/", "e", "x", "a", "m", "p", "l", "e", ".", "o", "r", "g", "/", "v">>

\* "https://youtube.com:443/x"
URL_YT_PORT ==
    <<"h", "t", "t", "p", "s", ":", "/", "/", "y", "o", "u", "t", "u", "b", "e", ".", "c", "o", "m", ":", "4", "4", "3", "/", "x">>

\* "https://m.vimeo.com/1?a=b"
URL_VIMEO_SUB ==
    <<"h", "t", "t", "p", "s", ":", "/", "/", "m", ".", "v", "i", "m", "e", "o", ".", "c", "o", "m", "/", "1", "?", "a", "=", "b">>

\* "youtube.com/x"
URL_NO_SCHEME ==
    <<"y", "o", "u", "t", "u", "b", "e", ".", "c", "o", "m", "/", "x">>

\* "https://u@www.instagram.com"
URL_INSTA_USER ==
    <<"h", "t", "t", "p", "s", ":", "/", "/", "u", "@", "w", "w", "w", ".", "i", "n", "s", "t", "a", "g", "r", "a", "m", ".", "c", "o", "m">>

\* "http://Pinterest.com#f"
URL_PINTEREST_FRAG ==
    <<"h", "t", "t", "p", ":", "/", "/", "P", "i", "n", "t", "e", "r", "e", "s", "t", ".", "c", "o", "m", "#", "f">>

\* "720p"
Q_720P ==
    <<"7", "2", "0", "p">>

\* "1080p"
Q_1080P ==
    <<"1", "0", "8", "0", "p">>

\* "hd"
Q_HD ==
    <<"h", "d">>

\* "c/k.txt"
COOKIE_KEPT ==
    <<"c", "/", "k", ".", "t", "x", "t">>

\* "c/m.txt"
COOKIE_GONE ==
    <<"c", "/", "m", ".", "t", "x", "t">>

\* the requests of the form and of callers of start_download: every URL with
\* every media type, quality and cookie file
Urls ==
    {URL_YT_WWW, URL_YOUTU_BE, URL_AGASOBANUYE, URL_OTHER, URL_YT_PORT, URL_VIMEO_SUB,
     URL_NO_SCHEME, URL_INSTA_USER, URL_PINTEREST_FRAG}

Qualities ==
    {BEST, Q_720P, Q_1080P, Q_HD}

Requests ==
    [url : Urls, media : {"video", "audio", "photo"}, quality : Qualities,
     cookie_file : {None, Some(COOKIE_KEPT), Some(COOKIE_GONE)}]

\* the one request of the specifications that are about the job and not
\* about its options
OneRequest ==
    {[url |-> URL_YT_WWW, media |-> "video", quality |-> Q_720P, cookie_file |-> None]}

\* the files that exist before any download: the cookie files kept
CookieFiles ==
    {COOKIE_KEPT}

\* the payloads of the progress events; byte totals are powers of two, so
\* that downloaded / total * 100 is exact in floating point
HookEvents ==
    { [status |-> "downloading", total_bytes |-> Some(4), total_bytes_estimate |-> None,
       downloaded_bytes |-> Some(1), filename |-> F_WEBM],
      [status |-> "downloading", total_bytes |-> None, total_bytes_estimate |-> None,
       downloaded_bytes |-> Some(2), filename |-> <<>>],
      [status |-> "downloading", total_bytes |-> None, total_bytes_estimate |-> Some(2),
       downloaded_bytes |-> Some(4), filename |-> F_PART],
      [status |-> "downloading", total_bytes |-> Some(-1), total_bytes_estimate |-> Some(4),
       downloaded_bytes |-> None, filename |-> <<>>],
      [status |-> "finished", total_bytes |-> Some(4), total_bytes_estimate |-> None,
       downloaded_bytes |-> Some(4), filename |-> F_PART],
      [status |-> "finished", total_bytes |-> None, total_bytes_estimate |-> None,
       downloaded_bytes |-> None, filename |-> <<>>],
      [status |-> "error", total_bytes |-> None, total_bytes_estimate |-> None,
       downloaded_bytes |-> None, filename |-> <<>>],
      [status |-> "", total_bytes |-> None, total_bytes_estimate |-> None,
       downloaded_bytes |-> None, filename |-> <<>>] }

(***************************************************************************)
(* DownloadProgress: the fields of a progress record that the worker, the  *)
(* hook and the polling loop decide on.  speed, eta, file_size, downloaded *)
(* and cookie_file are display strings copied from the event and are not   *)
(* part of the model.                                                      *)
(***************************************************************************)
DownloadProgress(sid) ==
    [session_id |-> sid, status |-> "queued", progress |-> 0, error |-> None,
     filename |-> <<>>, filepath |-> <<>>]

Terminal ==
    {"completed", "error"}

\* bool(x) of an optional number: None and 0 are false
Truthy(o) ==
    o # None /\ o[1] # 0

\* a or b
Or(a, b) ==
    IF Truthy(a) THEN a ELSE b

(***************************************************************************)
(* _progress_hook, by the branch of the event's status.                    *)
(***************************************************************************)
\* a "downloading" branch that restarts progress when the total is unknown
HookDownloadingResets(prog, d) ==
    LET total == Or(d.total_bytes, d.total_bytes_estimate)
        downloaded == IF Truthy(d.downloaded_bytes) THEN d.downloaded_bytes[1] ELSE 0
        p1 == [prog EXCEPT !.status = "downloading"]
        p2 == IF Truthy(total) /\ total[1] > 0
              THEN [p1 EXCEPT !.progress = (downloaded * 100) \div total[1]]
              ELSE [p1 EXCEPT !.progress = 0]
    IN  IF d.filename # <<>>
        THEN [p2 EXCEPT !.filename = Basename(d.filename)]
        ELSE p2

\* the "downloading" branch
HookDownloading(prog, d) ==
    LET total == Or(d.total_bytes, d.total_bytes_estimate)
        downloaded == IF Truthy(d.downloaded_bytes) THEN d.downloaded_bytes[1] ELSE 0
        p1 == [prog EXCEPT !.status = "downloading"]
        p2 == IF Truthy(total) /\ total[1] > 0
              THEN [p1 EXCEPT !.progress = (downloaded * 100) \div total[1]]
              ELSE p1
    IN  IF d.filename # <<>>
        THEN [p2 EXCEPT !.filename = Basename(d.filename)]
        ELSE p2

\* the "finished" branch
HookFinished(prog, d) ==
    LET p1 == [prog EXCEPT !.status = "processing", !.progress = 100]
    IN  IF d.filename # <<>>
        THEN [p1 EXCEPT !.filepath = d.filename, !.filename = Basename(d.filename)]
        ELSE p1

\* the "error" branch, first assignment
HookErrorStatus(prog) ==
    [prog EXCEPT !.status = "error"]

\* the "error" branch, second assignment
HookErrorMessage(prog) ==
    [prog EXCEPT !.error = Some(MSG_HOOK)]

\* the record after a whole call of the hook with a "downloading", a
\* "finished" or an unknown event
ProgressHook(prog, d) ==
    CASE d.status = "downloading" -> HookDownloading(prog, d)
      [] d.status = "finished" -> HookFinished(prog, d)
      [] OTHER -> prog

(***************************************************************************)
(* download_job: the message of the except clause.                         *)
(***************************************************************************)
\* a chain of tests that looks for "private" first
ClassifyLoweredPrivateFirst(error_msg, lowered) ==
    IF Contains(KW_PRIVATE, lowered) THEN MSG_PRIVATE
    ELSE IF Contains(KW_AGE, lowered) \/ Contains(KW_SIGNIN, lowered) THEN MSG_AGE
    ELSE IF Contains(KW_UNAVAILABLE, lowered) THEN MSG_UNAVAILABLE
    ELSE IF Contains(KW_FORMAT, lowered) THEN MSG_FORMAT
    ELSE MSG_PREFIX \o error_msg

\* the chain of tests on error_msg.lower()
ClassifyLowered(error_msg, lowered) ==
    IF Contains(KW_AGE, lowered) \/ Contains(KW_SIGNIN, lowered) THEN MSG_AGE
    ELSE IF Contains(KW_PRIVATE, lowered) THEN MSG_PRIVATE
    ELSE IF Contains(KW_UNAVAILABLE, lowered) THEN MSG_UNAVAILABLE
    ELSE IF Contains(KW_FORMAT, lowered) THEN MSG_FORMAT
    ELSE MSG_PREFIX \o error_msg

Classify(error_msg) ==
    TheOne({ClassifyLowered(error_msg, lowered) : lowered \in {Lower(error_msg)}})

(***************************************************************************)
(* download_job: finding the downloaded file.                              *)
(***************************************************************************)
Candidates(target) ==
    <<target,
      Replace(target, EXT_WEBM, EXT_MP4),
      Replace(target, EXT_MKV, EXT_MP4),
      Replace(target, EXT_M4A, EXT_MP3)>>

\* the loop over the candidates c: the first that exists is taken
FirstExisting(prog, c, files) ==
    LET hits == {i \in 1..Len(c) : c[i] \in files}
    IN  IF hits = {} THEN prog
        ELSE LET i == CHOOSE k \in hits : \A j \in hits : k <= j
             IN  [prog EXCEPT !.filepath = c[i], !.filename = Basename(c[i])]

AfterCandidates(prog, target, files) ==
    TheOne({FirstExisting(prog, c, files) : c \in {Candidates(target)}})

\* info.get("title", "download")[:50]
Title(info) ==
    SubSeq(info.title, 1, IF Len(info.title) < 50 THEN Len(info.title) ELSE 50)

\* the files of DOWNLOAD_DIR.glob("*") that pass the test on the name
GlobMatches(info, files) ==
    {f \in files :
        \E name \in {Basename(f)}, title \in {Title(info)} :
            /\ Dirname(f) = DOWNLOAD_DIR
            /\ \/ Contains(Lower(title), Lower(name))
               \/ Contains(info.id, name)}

\* the records the search can end with: glob yields the directory in no
\* fixed order, so any matching file can be the first
ResolveResults(prog, info, files) ==
    UNION { IF p1.filepath # <<>> \/ found = {}
            THEN {p1}
            ELSE {[p1 EXCEPT !.filepath = f, !.filename = Basename(f)] : f \in found} :
                p1 \in {AfterCandidates(prog, info.target, files)},
                found \in {GlobMatches(info, files)} }

(***************************************************************************)
(* The option builder: get_platform_config, ydl_base_opts and the builders *)
(* of the format options.  A dict is a function on its keys.               *)
(***************************************************************************)
\* s.startswith(pre)
StartsWith(pre, s) ==
    Len(pre) <= Len(s) /\ SubSeq(s, 1, Len(pre)) = pre

\* s.endswith(suf)
EndsWith(suf, s) ==
    Len(suf) <= Len(s) /\ SubSeq(s, Len(s) - Len(suf) + 1, Len(s)) = suf

\* the first index from `from` on of a character of chars, Len(s) + 1 if none
FirstIndex(chars, s, from) ==
    LET hits == {i \in from..Len(s) : s[i] \in chars} \cup {Len(s) + 1}
    IN  CHOOSE i \in hits : \A j \in hits : i <= j

Digits ==
    {"0", "1", "2", "3", "4", "5", "6", "7", "8", "9"}

\* string.ascii_letters
Letters ==
    {LowerCase[i] : i \in 1..Len(LowerCase)} \cup {UpperCase[i] : i \in 1..Len(UpperCase)}

\* the characters urlsplit accepts in a scheme
SchemeChars ==
    Letters \cup Digits \cup {"+", "-", "."}

\* urlparse(url): what is left of url after its scheme and the colon
AfterScheme(url) ==
    LET i == FirstIndex({":"}, url, 1)
    IN  IF /\ 1 < i
           /\ i <= Len(url)
           /\ url[1] \in Letters
           /\ \A j \in 1..(i - 1) : url[j] \in SchemeChars
        THEN SubSeq(url, i + 1, Len(url))
        ELSE url

\* urlparse(url).netloc: what follows "//", up to the first of / ? #
Netloc(url) ==
    TheOne({ IF StartsWith(<<"/", "/">>, rest)
             THEN SubSeq(rest, 3, FirstIndex({"/", "?", "#"}, rest, 3) - 1)
             ELSE <<>> : rest \in {AfterScheme(url)} })

\* PLATFORM_CONFIGS in the order of the dict; "description" is left out
PLATFORM_CONFIGS ==
    << [key |-> K_AGASOBANUYE,
        config |-> [requires_cookies |-> TRUE, user_agent |-> UA_MOZILLA,
                    referer |-> REFERER_AGASOBANUYE]],
       [key |-> K_YOUTUBE, config |-> [requires_cookies |-> FALSE]],
       [key |-> K_YOUTU_BE, config |-> [requires_cookies |-> FALSE]],
       [key |-> K_VIMEO, config |-> [requires_cookies |-> FALSE]],
       [key |-> K_INSTAGRAM, config |-> [requires_cookies |-> FALSE]],
       [key |-> K_PINTEREST, config |-> [requires_cookies |-> FALSE]] >>

\* for k, v in PLATFORM_CONFIGS.items(): if domain.endswith(k): return v
FirstEntry(domain) ==
    LET hits == {i \in 1..Len(PLATFORM_CONFIGS) : EndsWith(PLATFORM_CONFIGS[i].key, domain)}
    IN  IF hits = {} THEN None
        ELSE Some(PLATFORM_CONFIGS[CHOOSE i \in hits : \A j \in hits : i <= j].config)

\* domain.startswith("www."): domain = domain[4:]
StripWww(domain) ==
    IF StartsWith(WWW, domain) THEN SubSeq(domain, Len(WWW) + 1, Len(domain)) ELSE domain

get_platform_config(url) ==
    IF url = <<>> THEN None
    ELSE TheOne({FirstEntry(StripWww(domain)) : domain \in {Lower(Netloc(url))}})

\* d.update(e)
Update(d, e) ==
    e @@ d

\* the headers ydl_base_opts takes from a platform entry
HttpHeaders(platform) ==
    LET ua == IF "user_agent" \in DOMAIN platform THEN {"User-Agent"} ELSE {}
        ref == IF "referer" \in DOMAIN platform THEN {"Referer"} ELSE {}
    IN  [h \in ua \cup ref |->
            IF h = "User-Agent" THEN platform.user_agent ELSE platform.referer]

\* ydl_base_opts, with has_ffmpeg() and the files that exist
ydl_base_opts(url, cookie_file, has_ffmpeg, files) ==
    LET base == [quiet |-> TRUE, no_warnings |-> TRUE, noplaylist |-> TRUE,
                 outtmpl |-> DOWNLOAD_DIR \o OUTTMPL_NAME,
                 retries |-> 10, socket_timeout |-> 30,
                 merge_output_format |-> IF has_ffmpeg THEN Some(MP4) ELSE None]
        o1 == IF cookie_file # None /\ cookie_file[1] # <<>> /\ cookie_file[1] \in files
              THEN Update(base, [cookiefile |-> cookie_file[1]])
              ELSE base
    IN  TheOne({ IF platform # None /\ DOMAIN HttpHeaders(platform[1]) # {}
                 THEN Update(o1, [http_headers |-> HttpHeaders(platform[1])])
                 ELSE o1 : platform \in {get_platform_config(url)} })

\* "".join(ch for ch in quality if ch.isdigit())
DigitsOf(quality) ==
    SelectSeq(quality, LAMBDA ch : ch \in Digits)

\* both branches of the test of has_ffmpeg() return the same selector
build_video_format(quality, has_ffmpeg) ==
    IF quality = BEST THEN BEST
    ELSE IF DigitsOf(quality) = <<>> THEN BEST
    ELSE IF ~has_ffmpeg THEN HEIGHT_PRE \o DigitsOf(quality) \o HEIGHT_POST
    ELSE HEIGHT_PRE \o DigitsOf(quality) \o HEIGHT_POST

\* audio options that ask for the extraction whether FFmpeg is there or not
AudioOptsAlwaysExtract(has_ffmpeg) ==
    [format |-> BESTAUDIO,
     postprocessors |-> << [key |-> FFMPEG_EXTRACT_AUDIO, preferredcodec |-> MP3,
                            preferredquality |-> Q192] >>]

build_audio_opts(has_ffmpeg) ==
    IF has_ffmpeg
    THEN [format |-> BESTAUDIO,
          postprocessors |-> << [key |-> FFMPEG_EXTRACT_AUDIO, preferredcodec |-> MP3,
                                 preferredquality |-> Q192] >>]
    ELSE [format |-> BESTAUDIO]

build_photo_opts ==
    [format |-> BEST, skip_download |-> FALSE]

\* download_job, lines 263-270: the options before the hook is registered
FormatOptions(r, has_ffmpeg, files) ==
    TheOne({ IF r.media = "audio" THEN Update(base, build_audio_opts(has_ffmpeg))
             ELSE IF r.media = "photo" THEN Update(base, build_photo_opts)
             ELSE Update(base, [format |-> build_video_format(r.quality, has_ffmpeg)]) :
                 base \in {ydl_base_opts(r.url, r.cookie_file, has_ffmpeg, files)} })

(***************************************************************************)
(* State.                                                                  *)
(***************************************************************************)
VARIABLES
    download_sessions,  \* the registry: session id -> progress record
    mode,               \* how the job of a session id was started
    pc,                 \* where the worker of a session id stands
    nev,                \* hook events the library has emitted for the job
    exc,                \* the exception in flight or handled: text and origin
    info,               \* what extract_info returned
    storage,            \* the files that exist
    rpc,                \* where the polling loop of a session id stands
    polls,              \* iterations the polling loop has slept through
    shown,              \* what the polling loop has displayed as the outcome
    ret,                \* the status of the record start_download returned
    hist,               \* the terminal statuses a record has had so far
    request,            \* url, media, quality and cookie_file the job was started with
    ffmpeg,             \* has_ffmpeg(): an ffmpeg executable is on the PATH
    opts,               \* the options download_job has built for the library
    progress_value,     \* the value the polling loop last gave to st.progress
    listed              \* what the active downloads section last wrote

vars ==
    <<download_sessions, mode, pc, nev, exc, info, storage, rpc, polls, shown, ret, hist,
      request, ffmpeg, opts, progress_value, listed>>

formVars ==
    <<request, ffmpeg, opts>>

jobVars ==
    <<mode, nev, exc, info, storage, ret, formVars>>

readerVars ==
    <<rpc, polls, shown, progress_value, listed>>

Init ==
    /\ download_sessions = [s \in {} |-> DownloadProgress(s)]
    /\ mode = [s \in SessionIds |-> "none"]
    /\ pc = [s \in SessionIds |-> "none"]
    /\ nev = [s \in SessionIds |-> 0]
    /\ exc = [s \in SessionIds |-> None]
    /\ info = [s \in SessionIds |-> None]
    /\ storage = CookieFiles
    /\ rpc = [s \in SessionIds |-> "none"]
    /\ polls = [s \in SessionIds |-> 0]
    /\ shown = [s \in SessionIds |-> None]
    /\ ret = [s \in SessionIds |-> None]
    /\ hist = [s \in SessionIds |-> {}]
    /\ request = [s \in SessionIds |-> None]
    /\ ffmpeg \in BOOLEAN
    /\ opts = [s \in SessionIds |-> None]
    /\ progress_value = [s \in SessionIds |-> None]
    /\ listed = <<>>

\* the record of s becomes prog; hist follows the status
Write(s, prog) ==
    /\ download_sessions' = [download_sessions EXCEPT ![s] = prog]
    /\ hist' = [hist EXCEPT ![s] = @ \cup ({prog.status} \cap Terminal)]

\* str(uuid.uuid4()): the ids that can come next, none returned before
FreshIds ==
    {IdSeq[i] : i \in {j \in 1..Len(IdSeq) : j = Cardinality(DOMAIN download_sessions) + 1}}

\* a record kept by the caller only and never put into the registry
InsertNowhere(s) ==
    UNCHANGED <<download_sessions, hist>>

\* download_sessions[session_id] = DownloadProgress(session_id)
Insert(s) ==
    /\ download_sessions' =
           [t \in DOMAIN download_sessions \cup {s} |->
               IF t = s THEN DownloadProgress(s) ELSE download_sessions[t]]
    /\ hist' = hist

(***************************************************************************)
(* streamlit_app.py start_download_session: the record is created, then    *)
(* the worker thread is started and the caller enters the polling loop.    *)
(***************************************************************************)
start_download_session_create(s, r) ==
    /\ s \in FreshIds
    /\ pc[s] = "none"
    /\ Insert(s)
    /\ mode' = [mode EXCEPT ![s] = "thread"]
    /\ pc' = [pc EXCEPT ![s] = "created"]
    /\ request' = [request EXCEPT ![s] = Some(r)]
    /\ UNCHANGED <<nev, exc, info, storage, ret, ffmpeg, opts, readerVars>>

start_download_session_thread(s) ==
    /\ pc[s] = "created"
    /\ mode[s] = "thread"
    /\ pc' = [pc EXCEPT ![s] = "job"]
    /\ rpc' = [rpc EXCEPT ![s] = "poll"]
    /\ UNCHANGED <<download_sessions, hist, jobVars, polls, shown, progress_value, listed>>

(***************************************************************************)
(* main.py start_download: the record is created, download_job is called   *)
(* in the caller's thread, the record is returned.                         *)
(***************************************************************************)
start_download_create(s, r) ==
    /\ s \in FreshIds
    /\ pc[s] = "none"
    /\ Insert(s)
    /\ mode' = [mode EXCEPT ![s] = "sync"]
    /\ pc' = [pc EXCEPT ![s] = "created"]
    /\ request' = [request EXCEPT ![s] = Some(r)]
    /\ UNCHANGED <<nev, exc, info, storage, ret, ffmpeg, opts, readerVars>>

start_download_call(s) ==
    /\ pc[s] = "created"
    /\ mode[s] = "sync"
    /\ pc' = [pc EXCEPT ![s] = "job"]
    /\ UNCHANGED <<download_sessions, hist, jobVars, readerVars>>

start_download_return(s) ==
    /\ pc[s] = "done"
    /\ mode[s] = "sync"
    /\ ret[s] = None
    /\ ret' = [ret EXCEPT ![s] = Some(download_sessions[s].status)]
    /\ UNCHANGED <<download_sessions, hist, mode, pc, nev, exc, info, storage, formVars,
                   readerVars>>

(***************************************************************************)
(* main.py download_job, one step per stretch of code whose effects on the *)
(* record another thread can tell apart.  The positions of pc:             *)
(*   "job"      entered, before the lookup                      (254)      *)
(*   "build"    status is starting, options not yet built       (261-273)  *)
(*   "call"     inside extract_info, between two hook calls     (278)      *)
(*   "hook246"  inside the hook's error branch, status written  (246)      *)
(*   "resolve"  extract_info has returned                       (281-302)  *)
(*   "finish"   the search for the file is over                 (304-308)  *)
(*   "except"   an exception has reached the except clause      (311)      *)
(*   "classify" status is error, message not yet written        (312-326)  *)
(*   "done"     returned normally                                          *)
(*   "raised"   an exception has left download_job                         *)
(***************************************************************************)
\* a try statement that begins after the options are built
TryBlockAfterOptions ==
    {"call", "resolve", "finish"}

\* the positions inside the try statement
TryBlock ==
    {"build", "call", "resolve", "finish"}

\* an exception with this text raised at this position
Raise(s, at, text) ==
    /\ pc' = [pc EXCEPT ![s] = IF at \in TryBlock THEN "except" ELSE "raised"]
    /\ exc' = [exc EXCEPT ![s] = Some([text |-> text, at |-> at])]

\* a lookup that makes the record when there is none
JobLookupCreating(s) ==
    /\ pc[s] = "job"
    /\ IF s \in DOMAIN download_sessions
       THEN Write(s, [download_sessions[s] EXCEPT !.status = "starting"])
       ELSE /\ download_sessions' =
                   [t \in DOMAIN download_sessions \cup {s} |->
                       IF t = s THEN [DownloadProgress(s) EXCEPT !.status = "starting"]
                       ELSE download_sessions[t]]
            /\ hist' = hist
    /\ pc' = [pc EXCEPT ![s] = "build"]
    /\ UNCHANGED <<jobVars, readerVars>>

\* prog = download_sessions.get(session_id); return if missing; status = "starting"
JobLookup(s) ==
    /\ pc[s] = "job"
    /\ IF s \in DOMAIN download_sessions
       THEN /\ Write(s, [download_sessions[s] EXCEPT !.status = "starting"])
            /\ pc' = [pc EXCEPT ![s] = "build"]
       ELSE /\ pc' = [pc EXCEPT ![s] = "done"]
            /\ UNCHANGED <<download_sessions, hist>>
    /\ UNCHANGED <<jobVars, readerVars>>

\* a hook bound to one session for every job
HookSessionShared(s) ==
    IdSeq[1]

\* the session whose record the hook registered by the job of s looks up
HookSession(s) ==
    s

\* opts["progress_hooks"] = [lambda d: _progress_hook(d, session_id)]
JobOptions(s, r, has_ffmpeg, files) ==
    Update(FormatOptions(r, has_ffmpeg, files), [progress_hooks |-> <<HookSession(s)>>])

\* the options are built and the hook is registered
JobBuildOpts(s) ==
    /\ pc[s] = "build"
    /\ opts' = [opts EXCEPT ![s] = Some(JobOptions(s, request[s][1], ffmpeg, storage))]
    /\ pc' = [pc EXCEPT ![s] = "call"]
    /\ UNCHANGED <<download_sessions, hist, mode, nev, exc, info, storage, ret, request,
                   ffmpeg, readerVars>>

\* option building raises
JobBuildRaise(s, text) ==
    /\ pc[s] = "build"
    /\ Raise(s, "build", text)
    /\ UNCHANGED <<download_sessions, hist, mode, nev, info, storage, ret, formVars, readerVars>>

\* the library calls the hook with a "downloading", "finished" or unknown event
LibHook(s, d) ==
    /\ pc[s] = "call"
    /\ nev[s] < MaxEvents
    /\ d.status # "error"
    /\ nev' = [nev EXCEPT ![s] = @ + 1]
    /\ IF HookSession(s) \in DOMAIN download_sessions
       THEN Write(HookSession(s), ProgressHook(download_sessions[HookSession(s)], d))
       ELSE UNCHANGED <<download_sessions, hist>>
    /\ UNCHANGED <<mode, pc, exc, info, storage, ret, formVars, readerVars>>

\* the library calls the hook with an "error" event: prog.status = "error"
LibHookErrorStatus(s, d) ==
    /\ pc[s] = "call"
    /\ nev[s] < MaxEvents
    /\ d.status = "error"
    /\ nev' = [nev EXCEPT ![s] = @ + 1]
    /\ IF HookSession(s) \in DOMAIN download_sessions
       THEN /\ Write(HookSession(s), HookErrorStatus(download_sessions[HookSession(s)]))
            /\ pc' = [pc EXCEPT ![s] = "hook246"]
       ELSE UNCHANGED <<download_sessions, hist, pc>>
    /\ UNCHANGED <<mode, exc, info, storage, ret, formVars, readerVars>>

\* ... and then prog.error = "Download error"
LibHookErrorMessage(s) ==
    /\ pc[s] = "hook246"
    /\ Write(HookSession(s), HookErrorMessage(download_sessions[HookSession(s)]))
    /\ pc' = [pc EXCEPT ![s] = "call"]
    /\ UNCHANGED <<jobVars, readerVars>>

\* extract_info returns; the library has left some files on storage
LibReturn(s, i, out) ==
    /\ pc[s] = "call"
    /\ info' = [info EXCEPT ![s] = Some(i)]
    /\ storage' = storage \cup out
    /\ pc' = [pc EXCEPT ![s] = "resolve"]
    /\ UNCHANGED <<download_sessions, hist, mode, nev, exc, ret, formVars, readerVars>>

\* extract_info raises
LibRaise(s, text) ==
    /\ pc[s] = "call"
    /\ Raise(s, "call", text)
    /\ UNCHANGED <<download_sessions, hist, mode, nev, info, storage, ret, formVars, readerVars>>

\* the candidates are probed, then the directory is scanned
JobResolve(s) ==
    /\ pc[s] = "resolve"
    /\ \E prog \in ResolveResults(download_sessions[s], info[s][1], storage) :
           Write(s, prog)
    /\ pc' = [pc EXCEPT ![s] = "finish"]
    /\ UNCHANGED <<jobVars, readerVars>>

\* a finish that returns without raising when no file was found
JobFinishNoRaise(s) ==
    /\ pc[s] = "finish"
    /\ IF download_sessions[s].filepath # <<>>
       THEN Write(s, [download_sessions[s] EXCEPT !.status = "completed"])
       ELSE UNCHANGED <<download_sessions, hist>>
    /\ pc' = [pc EXCEPT ![s] = "done"]
    /\ UNCHANGED <<jobVars, readerVars>>

\* if prog.filepath: completed, else raise Exception("Downloaded file not found")
JobFinish(s) ==
    /\ pc[s] = "finish"
    /\ IF download_sessions[s].filepath # <<>>
       THEN /\ Write(s, [download_sessions[s] EXCEPT !.status = "completed"])
            /\ pc' = [pc EXCEPT ![s] = "done"]
            /\ exc' = exc
       ELSE /\ Raise(s, "finish", MSG_NOTFOUND)
            /\ UNCHANGED <<download_sessions, hist>>
    /\ UNCHANGED <<mode, nev, info, storage, ret, formVars, readerVars>>

\* except Exception as e: prog.status = "error"
JobExcept(s) ==
    /\ pc[s] = "except"
    /\ Write(s, [download_sessions[s] EXCEPT !.status = "error"])
    /\ pc' = [pc EXCEPT ![s] = "classify"]
    /\ UNCHANGED <<jobVars, readerVars>>

\* prog.error = the message chosen from str(e); the function returns
JobClassify(s) ==
    /\ pc[s] = "classify"
    /\ Write(s, [download_sessions[s] EXCEPT !.error = Some(Classify(exc[s][1].text))])
    /\ pc' = [pc EXCEPT ![s] = "done"]
    /\ UNCHANGED <<jobVars, readerVars>>

\* every step of download_job for s, the hook calls of its library call
\* included, with a library that emits these events, leaves these files and
\* raises exceptions with these texts
download_job(s, events, outs, errs) ==
    \/ JobLookup(s)
    \/ JobBuildOpts(s)
    \/ \E text \in BuildErrors : JobBuildRaise(s, text)
    \/ \E d \in events : LibHook(s, d)
    \/ \E d \in events : LibHookErrorStatus(s, d)
    \/ LibHookErrorMessage(s)
    \/ \E i \in Infos, out \in outs : LibReturn(s, i, out)
    \/ \E text \in errs : LibRaise(s, text)
    \/ JobResolve(s)
    \/ JobFinish(s)
    \/ JobExcept(s)
    \/ JobClassify(s)

(***************************************************************************)
(* Calls of download_job and of _progress_hook by a caller that passes a   *)
(* session id of its own choice instead of one start_download made.        *)
(***************************************************************************)
\* download_job(url, media, quality, session_id, cookie_file) is entered
download_job_call(s, r) ==
    /\ pc[s] = "none"
    /\ mode' = [mode EXCEPT ![s] = "direct"]
    /\ pc' = [pc EXCEPT ![s] = "job"]
    /\ request' = [request EXCEPT ![s] = Some(r)]
    /\ UNCHANGED <<download_sessions, hist, nev, exc, info, storage, ret, ffmpeg, opts,
                   readerVars>>

\* _progress_hook(d, session_id), the whole call
progress_hook_call(s, d) ==
    /\ pc[s] \in {"none", "done"}
    /\ mode[s] \in {"none", "direct"}
    /\ nev[s] < MaxEvents
    /\ nev' = [nev EXCEPT ![s] = @ + 1]
    /\ IF s \in DOMAIN download_sessions
       THEN Write(s, IF d.status = "error"
                     THEN HookErrorMessage(HookErrorStatus(download_sessions[s]))
                     ELSE ProgressHook(download_sessions[s], d))
       ELSE UNCHANGED <<download_sessions, hist>>
    /\ UNCHANGED <<mode, pc, exc, info, storage, ret, formVars, readerVars>>

(***************************************************************************)
(* streamlit_app.py, the polling loop of the thread that started s.        *)
(*   "poll"       top of an iteration: lookup, display, status test (253)  *)
(*   "elif"       the test of status against "error"                (271)  *)
(*   "show_error" the read of prog.error for the display            (272)  *)
(*   "ended"      the loop is over                                         *)
(***************************************************************************)
\* a bar value taken from the record as it is
ProgressValueUnclamped(progress) ==
    [num |-> progress, den |-> 100]

\* max(0, min(100, prog.progress)) / 100, as the fraction num / den
ProgressValue(progress) ==
    [num |-> IF progress < 0 THEN 0 ELSE IF progress > 100 THEN 100 ELSE progress,
     den |-> 100]

\* prog = download_sessions.get(session_id), the display, if status == "completed"
PollRead(s) ==
    /\ rpc[s] = "poll"
    /\ IF s \notin DOMAIN download_sessions
       THEN /\ shown' = [shown EXCEPT ![s] = Some([status |-> "lost", error |-> None, filename |-> <<>>])]
            /\ rpc' = [rpc EXCEPT ![s] = "ended"]
            /\ progress_value' = progress_value
       ELSE /\ progress_value' = [progress_value EXCEPT ![s] =
                   Some(ProgressValue(download_sessions[s].progress))]
            /\ IF download_sessions[s].status = "completed"
               THEN /\ shown' = [shown EXCEPT ![s] =
                           Some([status |-> "completed", error |-> None,
                                 filename |-> download_sessions[s].filename])]
                    /\ rpc' = [rpc EXCEPT ![s] = "ended"]
               ELSE /\ rpc' = [rpc EXCEPT ![s] = "elif"]
                    /\ shown' = shown
    /\ UNCHANGED <<download_sessions, hist, pc, jobVars, polls, listed>>

\* a loop that stops the worker when it gives up
PollTimeoutStopsWorker(s) ==
    /\ rpc' = [rpc EXCEPT ![s] = "ended"]
    /\ shown' = [shown EXCEPT ![s] =
           Some([status |-> "timeout", error |-> None, filename |-> <<>>])]
    /\ pc' = [pc EXCEPT ![s] = "done"]
    /\ UNCHANGED <<download_sessions, hist, jobVars>>

\* the loop condition fails: the else clause of the while statement warns
PollTimeout(s) ==
    /\ rpc' = [rpc EXCEPT ![s] = "ended"]
    /\ shown' = [shown EXCEPT ![s] =
           Some([status |-> "timeout", error |-> None, filename |-> <<>>])]
    /\ UNCHANGED <<download_sessions, hist, pc, jobVars>>

\* elif prog.status == "error", else time.sleep(2) and the loop condition
PollCheckError(s) ==
    /\ rpc[s] = "elif"
    /\ IF download_sessions[s].status = "error"
       THEN /\ rpc' = [rpc EXCEPT ![s] = "show_error"]
            /\ UNCHANGED <<download_sessions, hist, pc, jobVars, polls, shown>>
       ELSE /\ polls' = [polls EXCEPT ![s] = @ + 1]
            /\ IF polls[s] + 1 < MaxPolls
               THEN /\ rpc' = [rpc EXCEPT ![s] = "poll"]
                    /\ UNCHANGED <<download_sessions, hist, pc, jobVars, shown>>
               ELSE PollTimeout(s)
    /\ UNCHANGED <<progress_value, listed>>

\* st.error(f"Download failed: {prog.error}"), the hints, break
PollShowError(s) ==
    /\ rpc[s] = "show_error"
    /\ shown' = [shown EXCEPT ![s] =
           Some([status |-> "error", error |-> download_sessions[s].error,
                 filename |-> <<>>])]
    /\ rpc' = [rpc EXCEPT ![s] = "ended"]
    /\ UNCHANGED <<download_sessions, hist, pc, jobVars, polls, progress_value, listed>>

polling_loop(s) ==
    \/ PollRead(s)
    \/ PollCheckError(s)
    \/ PollShowError(s)

(***************************************************************************)
(* streamlit_app.py, the active downloads section, which every run of the  *)
(* script of any browser session reaches.                                  *)
(***************************************************************************)
\* a listing that sets the progress of the completed records it shows
ListActiveFinishing ==
    /\ DOMAIN download_sessions # {}
    /\ listed' = [sid \in DOMAIN download_sessions |-> download_sessions[sid].status]
    /\ download_sessions' =
           [sid \in DOMAIN download_sessions |->
               IF download_sessions[sid].status = "completed"
               THEN [download_sessions[sid] EXCEPT !.progress = 100]
               ELSE download_sessions[sid]]
    /\ UNCHANGED <<hist, pc, jobVars, rpc, polls, shown, progress_value>>

\* a listing that drops the completed records it has shown
ListActiveReaping ==
    /\ DOMAIN download_sessions # {}
    /\ listed' = [sid \in DOMAIN download_sessions |-> download_sessions[sid].status]
    /\ download_sessions' =
           [sid \in {t \in DOMAIN download_sessions :
                        download_sessions[t].status # "completed"} |->
               download_sessions[sid]]
    /\ UNCHANGED <<hist, pc, jobVars, rpc, polls, shown, progress_value>>

\* if download_sessions: for sid, prog in list(download_sessions.items()): st.write(...)
ListActive ==
    /\ DOMAIN download_sessions # {}
    /\ listed' = [sid \in DOMAIN download_sessions |-> download_sessions[sid].status]
    /\ UNCHANGED <<download_sessions, hist, pc, jobVars, rpc, polls, shown, progress_value>>

(***************************************************************************)
(* Spec: one session in full: either way of starting it, every event, and  *)
(* the polling loop reading while the worker writes.                       *)
(***************************************************************************)
Next ==
    \E s \in {IdSeq[1]} :
        \/ \E r \in OneRequest : start_download_session_create(s, r)
        \/ start_download_session_thread(s)
        \/ \E r \in OneRequest : start_download_create(s, r)
        \/ start_download_call(s)
        \/ start_download_return(s)
        \/ download_job(s, HookEvents, Outputs, LibErrors)
        \/ polling_loop(s)
        \/ ListActive

Spec ==
    Init /\ [][Next]_vars

(***************************************************************************)
(* SpecTwo: two sessions started by start_download_session whose worker    *)
(* threads run concurrently, with fewer kinds of events, files and         *)
(* exception texts; the behaviours in which the polling threads have not   *)
(* run yet.                                                                *)
(***************************************************************************)
ConcEvents ==
    {d \in HookEvents : d.status \in {"downloading", "finished", "error"} /\ d.total_bytes # None}
        \cup {d \in HookEvents : d.status = "error"}

ConcOutputs ==
    {{}, {F_WEBM}}

ConcErrors ==
    {TXT_403}

NextTwo ==
    \E s \in SessionIds :
        \/ \E r \in OneRequest : start_download_session_create(s, r)
        \/ start_download_session_thread(s)
        \/ download_job(s, ConcEvents, ConcOutputs, ConcErrors)

SpecTwo ==
    Init /\ [][NextTwo]_vars

\* "Age-Restricted "
FR_AGE ==
    <<"A","g","e","-","R","e","s","t","r","i","c","t","e","d"," ">>

\* "Sign in "
FR_SIGNIN ==
    <<"S","i","g","n"," ","i","n"," ">>

\* "PRIVATE video "
FR_PRIVATE ==
    <<"P","R","I","V","A","T","E"," ","v","i","d","e","o"," ">>

\* "Video unavailable "
FR_UNAVAILABLE ==
    <<"V","i","d","e","o"," ","u","n","a","v","a","i","l","a","b","l","e"," ">>

\* "Requested format "
FR_FORMAT ==
    <<"R","e","q","u","e","s","t","e","d"," ","f","o","r","m","a","t"," ">>

\* "HTTP Error 403 "
FR_403 ==
    <<"H","T","T","P"," ","E","r","r","o","r"," ","4","0","3"," ">>

(***************************************************************************)
(* SpecLib: one worker and its library call, with every combination of     *)
(* byte counts in the "downloading" events and every exception text made   *)
(* of up to two of the fragments; the behaviours in which no reader has    *)
(* run yet.                                                                *)
(***************************************************************************)
WideEvents ==
    { [status |-> "downloading", total_bytes |-> t, total_bytes_estimate |-> e,
       downloaded_bytes |-> b, filename |-> f] :
          t \in {None, Some(0), Some(-1), Some(2), Some(4)},
          e \in {None, Some(0), Some(4)},
          b \in {None, Some(0), Some(1), Some(4)},
          f \in {<<>>, F_WEBM} }
        \cup {d \in HookEvents : d.status # "downloading"}

Fragments ==
    {<<>>, FR_AGE, FR_SIGNIN, FR_PRIVATE, FR_UNAVAILABLE, FR_FORMAT, FR_403}

WideErrors ==
    {a \o b : a \in Fragments, b \in Fragments}

NextLib ==
    \E s \in {IdSeq[1]} :
        \/ \E r \in OneRequest : start_download_session_create(s, r)
        \/ start_download_session_thread(s)
        \/ \E r \in OneRequest : start_download_create(s, r)
        \/ start_download_call(s)
        \/ start_download_return(s)
        \/ download_job(s, WideEvents, ConcOutputs, WideErrors)

SpecLib ==
    Init /\ [][NextLib]_vars

(***************************************************************************)
(* SpecOpts: the option builder on every request: one job, started either  *)
(* way, up to the point where its options are built or building them has   *)
(* raised.                                                                 *)
(***************************************************************************)
NextOpts ==
    \E s \in {IdSeq[1]} :
        \/ \E r \in Requests : start_download_session_create(s, r)
        \/ start_download_session_thread(s)
        \/ \E r \in Requests : start_download_create(s, r)
        \/ start_download_call(s)
        \/ JobLookup(s)
        \/ JobBuildOpts(s)
        \/ \E text \in BuildErrors : JobBuildRaise(s, text)

SpecOpts ==
    Init /\ [][NextOpts]_vars

(***************************************************************************)
(* SpecDirect: the job of one session made by start_download, while a      *)
(* caller calls download_job and _progress_hook with another session id,   *)
(* which nothing has put into the registry.                                *)
(***************************************************************************)
NextDirect ==
    \/ \E s \in {IdSeq[1]} :
           \/ \E r \in OneRequest : start_download_create(s, r)
           \/ start_download_call(s)
           \/ start_download_return(s)
    \/ \E s \in {IdSeq[2]} :
           \/ \E r \in OneRequest : download_job_call(s, r)
           \/ \E d \in HookEvents : progress_hook_call(s, d)
    \/ \E s \in SessionIds : download_job(s, ConcEvents, ConcOutputs, ConcErrors)

SpecDirect ==
    Init /\ [][NextDirect]_vars

(***************************************************************************)
(* FairSpec: the behaviours of Spec in which no script run renders the     *)
(* active downloads section, with a worker that keeps running and a        *)
(* library call that returns or raises.                                    *)
(***************************************************************************)
NextFair ==
    \E s \in {IdSeq[1]} :
        \/ \E r \in OneRequest : start_download_session_create(s, r)
        \/ start_download_session_thread(s)
        \/ \E r \in OneRequest : start_download_create(s, r)
        \/ start_download_call(s)
        \/ start_download_return(s)
        \/ download_job(s, HookEvents, Outputs, LibErrors)
        \/ polling_loop(s)

FairSpec ==
    /\ Init
    /\ [][NextFair]_vars
    /\ WF_vars(download_job(IdSeq[1], HookEvents, Outputs, LibErrors))
    /\ WF_vars(start_download_call(IdSeq[1]))
    /\ WF_vars(start_download_session_thread(IdSeq[1]))
    /\ WF_vars(start_download_return(IdSeq[1]))

TypeOK ==
    /\ DOMAIN download_sessions \subseteq SessionIds
    /\ \A s \in DOMAIN download_sessions :
           download_sessions[s].status \in
               {"queued", "starting", "downloading", "processing", "completed", "error"}

(***************************************************************************)
(* Properties.                                                             *)
(***************************************************************************)
\* a step of the progress hook of the job of s
HookStep(s) ==
    \/ \E d \in HookEvents : LibHook(s, d)
    \/ \E d \in HookEvents : LibHookErrorStatus(s, d)
    \/ LibHookErrorMessage(s)

\* C1: once the status of a record is completed or error, no call of
\* _progress_hook for its session changes the status.
C1_HookKeepsTerminalStatus ==
    [][\A s \in DOMAIN download_sessions :
          (download_sessions[s].status \in Terminal /\ HookStep(s))
              => download_sessions'[s].status = download_sessions[s].status]_vars

\* C2: in every reachable state a completed record has a non-empty filepath,
\* and a record in a terminal state is exactly one of: completed with a
\* non-empty filepath, error with a non-empty error.
C2_TerminalCarriesResult ==
    \A s \in DOMAIN download_sessions :
        LET p == download_sessions[s]
            completedWithFile == p.status = "completed" /\ p.filepath # <<>>
            errorWithMessage == p.status = "error" /\ p.error # None /\ p.error # Some(<<>>)
        IN  /\ p.status = "completed" => p.filepath # <<>>
            /\ p.status \in Terminal => (completedWithFile # errorWithMessage)

\* C3: a polling loop that has seen status == "error" on a record displays a
\* non-empty error message read from that record, whatever the interleaving
\* with the worker.
C3_ErrorShownWithMessage ==
    \A s \in SessionIds :
        (shown[s] # None /\ shown[s][1].status = "error")
            => (shown[s][1].error # None /\ shown[s][1].error # Some(<<>>))

\* no candidate path and no file of the directory matching title or id exists
NoFileFor(i, files) ==
    /\ \A k \in 1..Len(Candidates(i.target)) : Candidates(i.target)[k] \notin files
    /\ GlobMatches(i, files) = {}

\* C4: when extract_info has succeeded and no file for the job exists,
\* download_job ends with status error and the message "Downloaded file not
\* found", never with completed, whatever events the hook received.
C4_MissingFileIsError ==
    \A s \in DOMAIN download_sessions :
        (pc[s] = "done" /\ info[s] # None /\ NoFileFor(info[s][1], storage))
            => /\ download_sessions[s].status = "error"
               /\ download_sessions[s].error # None
               /\ Contains(MSG_NOTFOUND, download_sessions[s].error[1])

\* C5: whenever the status of a record is completed, its progress is 100.
C5_CompletedAtHundred ==
    \A s \in DOMAIN download_sessions :
        download_sessions[s].status = "completed" => download_sessions[s].progress = 100

\* C6: over the history of a record, completed and error exclude each other:
\* a record that has been error is never completed later, and the converse.
C6_TerminalStatesExclusive ==
    \A s \in SessionIds :
        ~ ({"completed", "error"} \subseteq hist[s])

\* C7: download_job never lets an exception out: a failure of option
\* building, of the library call or of the file search ends in status error
\* and a normal return.
C7_NoExceptionEscapes ==
    \A s \in SessionIds :
        /\ pc[s] # "raised"
        /\ (pc[s] = "done" /\ exc[s] # None)
               => (s \in DOMAIN download_sessions /\ download_sessions[s].status = "error")

\* C7 witness: the library call raised after a hook event and the job
\* returned normally.
C7_Witness ==
    \E s \in SessionIds :
        pc[s] = "done" /\ exc[s] # None /\ exc[s][1].at = "call" /\ nev[s] > 0

\* C8: every job started for an existing session comes to return, and when
\* download_job has returned the status is completed or error, so that the
\* record start_download returns is terminal.
C8_JobEndsTerminal ==
    /\ [](\A s \in DOMAIN download_sessions :
              /\ pc[s] = "done" => download_sessions[s].status \in Terminal
              /\ ret[s] # None => ret[s][1] \in Terminal)
    /\ \A s \in SessionIds : (pc[s] = "job") ~> (pc[s] = "done")

\* C8 witness: start_download has returned the record of a job whose file
\* was not found.
C8_Witness ==
    \E s \in SessionIds :
        ret[s] # None /\ exc[s] # None /\ exc[s][1].at = "finish"

\* C9: with two jobs running, every write of a job's download_job and of its
\* hook goes to the record of the job's own session; the other records stay
\* as they are.
C9_WritesOwnRecordOnly ==
    [][\A s \in SessionIds :
          download_job(s, ConcEvents, ConcOutputs, ConcErrors)
              => /\ DOMAIN download_sessions' = DOMAIN download_sessions
                 /\ \A t \in DOMAIN download_sessions \ {s} :
                        download_sessions'[t] = download_sessions[t]]_vars

\* C9 witness: both jobs are inside their library calls and the hook of each
\* has written to its record.
C9_Witness ==
    /\ DOMAIN download_sessions = SessionIds
    /\ \A s \in SessionIds : pc[s] = "call"
    /\ download_sessions[IdSeq[1]].status = "processing"
    /\ download_sessions[IdSeq[2]].status = "downloading"

\* C10: the record of a job is inserted once, with status queued, before the
\* worker starts; the worker finds it, and the first status written after
\* queued is starting.
C10_InsertedQueuedBeforeWorker ==
    /\ [](\A s \in SessionIds :
              pc[s] \in {"created", "job"}
                  => (s \in DOMAIN download_sessions
                      /\ download_sessions[s].status = "queued"))
    /\ [][\A s \in SessionIds :
              /\ (s \notin DOMAIN download_sessions /\ s \in DOMAIN download_sessions')
                     => (pc[s] = "none" /\ pc'[s] = "created"
                         /\ download_sessions'[s].status = "queued")
              /\ (s \in DOMAIN download_sessions)
                     => /\ s \in DOMAIN download_sessions'
                        /\ download_sessions'[s].status = "queued"
                               => download_sessions[s].status = "queued"
                        /\ (download_sessions[s].status = "queued"
                            /\ download_sessions'[s].status # "queued")
                               => (pc[s] = "job" /\ download_sessions'[s].status = "starting")]_vars

\* C10 witness: the worker thread has found the record and written starting.
C10_Witness ==
    \E s \in SessionIds :
        /\ mode[s] = "thread"
        /\ pc[s] = "build"
        /\ download_sessions[s].status = "starting"

\* the positions of pc at which download_job or its hook is running
JobPositions ==
    {"job", "build", "call", "hook246", "resolve", "finish", "except", "classify"}

\* C11: the polling loop and the active downloads listing only read: a step
\* of a reader changes no field of any record and not the key set of the
\* registry, and every change of a record is a step of download_job or of
\* its hook for that session.
C11_ReadersOnlyRead ==
    [][/\ readerVars' # readerVars => download_sessions' = download_sessions
       /\ \A s \in DOMAIN download_sessions \cap DOMAIN download_sessions' :
              download_sessions'[s] # download_sessions[s]
                  => /\ pc[s] \in JobPositions
                     /\ pc'[s] # pc[s] \/ nev'[s] # nev[s]]_vars

\* both readers have run between two writes of the worker
C11_Witness ==
    \E s \in DOMAIN download_sessions \cap DOMAIN listed :
        /\ listed[s] = "downloading"
        /\ progress_value[s] # None
        /\ rpc[s] = "ended"
        /\ download_sessions[s].status = "completed"

\* C12: no operation removes an entry of the registry: its key set only
\* grows, every session that was inserted is found by a lookup, and the
\* polling loop never reports "Download session lost".
C12_RegistryOnlyGrows ==
    /\ [](\A s \in SessionIds :
             /\ pc[s] # "none" => s \in DOMAIN download_sessions
             /\ shown[s] # None => shown[s][1].status # "lost")
    /\ [][DOMAIN download_sessions \subseteq DOMAIN download_sessions']_vars

\* the job has returned, the loop has ended, the listing has run: the entry
\* is still there
C12_Witness ==
    \E s \in DOMAIN download_sessions \cap DOMAIN listed :
        /\ pc[s] = "done"
        /\ rpc[s] = "ended"
        /\ shown[s] # None
        /\ listed[s] \in Terminal

\* the edges of the worker state machine
StatusEdges ==
    {<<"queued", "starting">>, <<"queued", "downloading">>, <<"starting", "downloading">>,
     <<"downloading", "downloading">>, <<"downloading", "processing">>,
     <<"processing", "completed">>}
        \cup ({"queued", "starting", "downloading", "processing"} \X {"error"})

\* C13: every change of the status of a record follows an edge of the worker
\* state machine; status never goes from processing back to downloading and
\* never becomes completed from any status but processing.
C13_StatusFollowsEdges ==
    [][\A s \in DOMAIN download_sessions \cap DOMAIN download_sessions' :
          download_sessions'[s].status # download_sessions[s].status
              => <<download_sessions[s].status, download_sessions'[s].status>>
                     \in StatusEdges]_vars

\* the total of an event: total_bytes, or the estimate when that is missing or 0
EventTotal(d) ==
    IF d.total_bytes \notin {None, Some(0)} THEN d.total_bytes ELSE d.total_bytes_estimate

\* C14: a "downloading" event whose total is unknown, zero or negative leaves
\* progress as it was; one whose total is known and positive sets progress
\* to downloaded / total * 100 of that event.
C14_ProgressFromEvent ==
    [][\A s \in DOMAIN download_sessions : \A d \in WideEvents :
          (d.status = "downloading" /\ LibHook(s, d))
              => download_sessions'[s].progress =
                     IF EventTotal(d) \in {None, Some(0)} \/ EventTotal(d)[1] < 0
                     THEN download_sessions[s].progress
                     ELSE ((IF d.downloaded_bytes = None THEN 0 ELSE d.downloaded_bytes[1])
                              * 100) \div EventTotal(d)[1]]_vars

\* two events have arrived and progress is that of a known total
C14_Witness ==
    \E s \in DOMAIN download_sessions :
        /\ download_sessions[s].status = "downloading"
        /\ download_sessions[s].progress = 50
        /\ nev[s] = 2

\* C15: the value the polling loop gives to the progress bar is within
\* [0, 1], whatever the hook has recorded, also when an event's downloaded
\* byte count exceeds its total.
C15_BarValueInRange ==
    \A s \in SessionIds :
        progress_value[s] # None
            => /\ 0 <= progress_value[s][1].num
               /\ progress_value[s][1].num <= progress_value[s][1].den
               /\ progress_value[s][1].den = 100

\* the loop has displayed a record whose only event put progress above 100
C15_Witness ==
    \E s \in DOMAIN download_sessions :
        /\ nev[s] = 1
        /\ download_sessions[s].progress > 100
        /\ rpc[s] = "elif"
        /\ progress_value[s] = Some([num |-> 100, den |-> 100])

\* the categories of the except clause in their order, each with its
\* keywords and its message
ErrorCategories ==
    << [keywords |-> {KW_AGE, KW_SIGNIN}, message |-> MSG_AGE],
       [keywords |-> {KW_PRIVATE}, message |-> MSG_PRIVATE],
       [keywords |-> {KW_UNAVAILABLE}, message |-> MSG_UNAVAILABLE],
       [keywords |-> {KW_FORMAT}, message |-> MSG_FORMAT] >>

\* the categories a lowered text matches
MatchingCategories(lowered) ==
    {i \in 1..Len(ErrorCategories) :
        \E kw \in ErrorCategories[i].keywords : Contains(kw, lowered)}

\* C16: when the library call raises, the job ends in status error with the
\* message of the first category whose keyword the exception text contains,
\* case-insensitively, in the order auth-required, private, unavailable,
\* format; a text with "age-restricted" gets the cookie message whatever
\* else it contains, a text with no keyword is shown after "Download failed: ".
C16_FirstCategoryDecides ==
    \A s \in DOMAIN download_sessions :
        (pc[s] = "done" /\ exc[s] # None /\ exc[s][1].at = "call")
            => \E text \in {exc[s][1].text} : \E m \in {MatchingCategories(Lower(text))} :
                   /\ download_sessions[s].status = "error"
                   /\ m # {} => \E i \in m :
                          /\ \A j \in m : i <= j
                          /\ download_sessions[s].error = Some(ErrorCategories[i].message)
                   /\ m = {} => download_sessions[s].error = Some(MSG_PREFIX \o text)
                   /\ Contains(KW_AGE, Lower(text)) => download_sessions[s].error = Some(MSG_AGE)

\* the library call raised a text with "private" before "Age-Restricted"
C16_Witness ==
    \E s \in DOMAIN download_sessions :
        /\ pc[s] = "done"
        /\ exc[s] = Some([text |-> FR_PRIVATE \o FR_AGE, at |-> "call"])
        /\ download_sessions[s].error = Some(MSG_AGE)

\* C17: the polling loop giving up or stopping has no effect on the worker:
\* the step that ends the loop leaves the record and the worker as they are,
\* and the job still returns with the record completed or error, which a
\* later lookup finds.
C17_TimeoutLeavesWorker ==
    /\ [][\A s \in SessionIds :
             (rpc[s] # "ended" /\ rpc'[s] = "ended")
                 => UNCHANGED <<download_sessions, pc, jobVars>>]_vars
    /\ \A s \in {IdSeq[1]} :
           (rpc[s] = "ended")
               ~> (/\ pc[s] = "done"
                   /\ s \in DOMAIN download_sessions
                   /\ download_sessions[s].status \in Terminal)

\* the loop gave up and the job completed afterwards
C17_Witness ==
    \E s \in DOMAIN download_sessions :
        /\ shown[s] = Some([status |-> "timeout", error |-> None, filename |-> <<>>])
        /\ pc[s] = "done"
        /\ download_sessions[s].status = "completed"

\* C18: for video with a quality that has digits N the selector prefers a
\* merged video+audio stream of height at most N when FFmpeg is there and is
\* the unconstrained "best" when it is not; for "best" or a quality without
\* digits it is "best".
C18_VideoSelector ==
    \A s \in SessionIds :
        (opts[s] # None /\ request[s][1].media = "video")
            => \E q \in {request[s][1].quality}, f \in {opts[s][1].format} :
                   IF q = BEST \/ DigitsOf(q) = <<>> THEN f = BEST
                   ELSE IF ffmpeg
                        THEN Contains(<<"+">>, f) /\ Contains(DigitsOf(q), f)
                        ELSE f = BEST

\* C19: for audio the options given to the library have format
\* "bestaudio/best"; without FFmpeg they hold no postprocessors, with FFmpeg
\* one that extracts mp3 at 192.
C19_AudioOptions ==
    \A s \in SessionIds :
        (opts[s] # None /\ request[s][1].media = "audio")
            => /\ opts[s][1].format = BESTAUDIO
               /\ ~ffmpeg => "postprocessors" \notin DOMAIN opts[s][1]
               /\ ffmpeg => /\ "postprocessors" \in DOMAIN opts[s][1]
                            /\ opts[s][1].postprocessors =
                                   << [key |-> FFMPEG_EXTRACT_AUDIO, preferredcodec |-> MP3,
                                       preferredquality |-> Q192] >>

\* the options of an audio job are built and there is no FFmpeg
C19_Witness ==
    \E s \in SessionIds :
        /\ pc[s] = "call"
        /\ opts[s] # None
        /\ request[s][1].media = "audio"
        /\ ~ffmpeg
        /\ "postprocessors" \notin DOMAIN opts[s][1]

\* the host of a URL: its network location without user and port, lowered
HostOf(url) ==
    LET n == Netloc(url)
        ats == {i \in 1..Len(n) : n[i] = "@"}
        start == IF ats = {} THEN 1 ELSE 1 + CHOOSE i \in ats : \A j \in ats : j <= i
        h == SubSeq(n, start, Len(n))
    IN  Lower(SubSeq(h, 1, FirstIndex({":"}, h, 1) - 1))

\* the entry whose key is the longest suffix of the host
LongestSuffixEntry(host) ==
    LET hits == {i \in 1..Len(PLATFORM_CONFIGS) : EndsWith(PLATFORM_CONFIGS[i].key, host)}
    IN  IF hits = {} THEN None
        ELSE Some(PLATFORM_CONFIGS[
                 CHOOSE i \in hits : \A j \in hits :
                     Len(PLATFORM_CONFIGS[j].key) <= Len(PLATFORM_CONFIGS[i].key)].config)

\* C20: get_platform_config gives the entry whose key is the longest suffix
\* of the URL's host, lowered and without one leading "www."; a host no key
\* is a suffix of gives no entry, and then the options have no http_headers.
C20_LongestSuffixOfHost ==
    \A s \in SessionIds :
        opts[s] # None
            => \E url \in {request[s][1].url} :
                   \E e \in {LongestSuffixEntry(StripWww(HostOf(url)))} :
                       /\ get_platform_config(url) = e
                       /\ e = None => "http_headers" \notin DOMAIN opts[s][1]

\* C21: a call of download_job or of _progress_hook with a session id that
\* is not in the registry returns without raising, makes no entry and
\* changes no field of any record.
C21_UnknownSessionIsNoOp ==
    /\ [](\A s \in SessionIds : mode[s] = "direct" => pc[s] \in {"job", "done"} /\ exc[s] = None)
    /\ [][\A s \in SessionIds \ DOMAIN download_sessions :
             ((pc[s] = "job" /\ pc'[s] # pc[s]) \/ nev'[s] # nev[s])
                 => /\ download_sessions' = download_sessions
                    /\ pc'[s] \in {pc[s], "done"}
                    /\ exc'[s] = None]_vars

\* both calls were made with an id that is not registered, next to a record
\* a job is working on
C21_Witness ==
    \E s \in SessionIds \ DOMAIN download_sessions :
        /\ mode[s] = "direct"
        /\ pc[s] = "done"
        /\ nev[s] = MaxEvents
        /\ \E t \in DOMAIN download_sessions : download_sessions[t].status = "downloading"

\* C22: whenever the status of a record is completed, its filename is the
\* base name of its filepath, whatever "downloading" and "finished" events
\* with whatever filenames came before.
C22_FilenameOfFilepath ==
    \A s \in DOMAIN download_sessions :
        download_sessions[s].status = "completed"
            => download_sessions[s].filename = Basename(download_sessions[s].filepath)

====
